---- MODULE Spec2Model ----
(***************************************************************************)
(* A model of d3pm's bridge.py: the histogram normalizer (hist), the Chart *)
(* object with its lazily rendered SVG, and the composition operators      *)
(* * (overlay), + (side by side) and / (vertical).                         *)
(*                                                                         *)
(* Python objects live in a heap of cells (lists and dicts) addressed by   *)
(* small integers, so that aliasing between a composed chart and its       *)
(* operands is visible.  Python floats are modelled as a binary floating   *)
(* point format with Precision significant bits and round-to-nearest-even; *)
(* a value is an integer count of the smallest quantum, 1.0 is One.        *)
(***************************************************************************)
EXTENDS Integers, Sequences, FiniteSets, TLC

(***************************************************************************)
(* Bounds of the model.                                                    *)
(***************************************************************************)
\* significant bits of a float (53 in CPython)
Precision == 4
\* 1.0 is 2^FracBits quanta; quotients of the inputs stay above 2^Precision
\* quanta, so every rounding below is the relative rounding of a normal float
FracBits == 9
\* largest input value of a histogram, in units of 1.0
MaxVal == 3
\* longest list of histogram input values
MaxVals == 3
\* largest requested bin count
MaxBins == 20
\* longest list of user-supplied bin edges
MaxEdges == 3

RECURSIVE Pow2(_)
Pow2(n) == IF n <= 0 THEN 1 ELSE 2 * Pow2(n - 1)

One == Pow2(FracBits)
Half == Pow2(FracBits - 1)

Abs(x) == IF x < 0 THEN -x ELSE x

(***************************************************************************)
(* Float arithmetic.  Round(num, den) is the float nearest to num/den:     *)
(* the quantum q of the binade of |num/den| is the smallest power of two   *)
(* with |num/den| < q * 2^Precision, and the quotient by q is rounded to   *)
(* an integer, ties to even.                                               *)
(***************************************************************************)
RECURSIVE Quantum(_, _, _)
Quantum(a, den, q) ==
    IF a < den * q * Pow2(Precision) THEN q ELSE Quantum(a, den, 2 * q)

RoundHalfEven(a, d) ==
    LET fl == a \div d
        r  == a % d
    IN  IF 2 * r > d \/ (2 * r = d /\ fl % 2 = 1) THEN fl + 1 ELSE fl

Round(num, den) ==
    LET a == Abs(num)
        q == Quantum(a, den, 1)
        m == RoundHalfEven(a, den * q)
    IN  IF num < 0 THEN -(m * q) ELSE m * q

IsFloat(v) == Round(v, 1) = v

FAdd(x, y) == Round(x + y, 1)
FSub(x, y) == Round(x - y, 1)
\* float / int and int * float: the int converts to a float exactly
FDivInt(x, n) == Round(x, n)
FMulInt(i, x) == Round(i * x, 1)

(***************************************************************************)
(* hist: lines 876-924 of bridge.py, up to the normalized clean_data.      *)
(***************************************************************************)
safe_convert(arr) == [i \in 1..Len(arr) |-> Round(arr[i], 1)]

RECURSIVE SeqMin(_)
SeqMin(s) ==
    IF Len(s) = 1 THEN s[1]
    ELSE LET m == SeqMin(Tail(s)) IN IF s[1] <= m THEN s[1] ELSE m

RECURSIVE SeqMax(_)
SeqMax(s) ==
    IF Len(s) = 1 THEN s[1]
    ELSE LET m == SeqMax(Tail(s)) IN IF s[1] >= m THEN s[1] ELSE m

\* lines 891-897: the auto-generated edges for an integer bin count
bin_width(min_val, max_val, bins) == FDivInt(FSub(max_val, min_val), bins)

auto_bin_edges(clean_values, bins) ==
    LET min_val == SeqMin(clean_values)
        max_val == SeqMax(clean_values)
    IN  IF min_val = max_val
        THEN << FSub(min_val, Half), FAdd(max_val, Half) >>
        ELSE [k \in 1..(bins + 1) |->
                FAdd(min_val, FMulInt(k - 1, bin_width(min_val, max_val, bins)))]

\* the outcome of the search for a value's bin: a bin index 0..bins-1, or
NoBin == -1
IndexErr == -2

\* a variant of in_bin whose last bin is half-open too
in_bin_open(lo, value, hi, last) == value < hi

\* the comparison that admits value to bin i, given both edges exist
in_bin(lo, value, hi, last) == IF last THEN value <= hi ELSE value < hi

\* lines 907-915: the inner loop, from bin i on; bin_edges[i] is edges[i + 1]
RECURSIVE find_bin(_, _, _, _)
find_bin(edges, bins, value, i) ==
    IF i >= bins THEN NoBin
    ELSE IF i + 1 > Len(edges) THEN IndexErr
    ELSE IF edges[i + 1] <= value
         THEN IF i + 2 > Len(edges) THEN IndexErr
              ELSE IF in_bin(edges[i + 1], value, edges[i + 2], i = bins - 1)
                   THEN i
                   ELSE find_bin(edges, bins, value, i + 1)
         ELSE find_bin(edges, bins, value, i + 1)

\* lines 904-915
hist_counts(edges, bins, clean_values) ==
    [k \in 1..(IF bins > 0 THEN bins ELSE 0) |->
        Cardinality({j \in 1..Len(clean_values) :
                        find_bin(edges, bins, clean_values[j], 0) = k - 1})]

\* bins is [isInt |-> BOOLEAN, n |-> Int, edges |-> Seq(Int)]
hist_normalize(values, bins) ==
    LET clean_values == safe_convert(values)
        bin_edges == IF bins.isInt THEN auto_bin_edges(clean_values, bins.n)
                     ELSE safe_convert(bins.edges)
        nbins == IF bins.isInt THEN bins.n ELSE Len(bin_edges) - 1
        counts == hist_counts(bin_edges, nbins, clean_values)
        raised == \/ \E j \in 1..Len(clean_values) :
                        find_bin(bin_edges, nbins, clean_values[j], 0) = IndexErr
                  \/ nbins > 0 /\ nbins + 1 > Len(bin_edges)
    IN  IF bins.isInt /\ Len(values) = 0
        THEN [status |-> "ValueError", bin_edges |-> << >>, data |-> << >>]
        ELSE IF raised
        THEN [status |-> "IndexError", bin_edges |-> bin_edges, data |-> << >>]
        ELSE [status |-> "ok", bin_edges |-> bin_edges,
              data |-> [k \in 1..(IF nbins > 0 THEN nbins ELSE 0) |->
                          [binStart |-> bin_edges[k], binEnd |-> bin_edges[k + 1],
                           count |-> counts[k]]]]

(***************************************************************************)
(* State.                                                                  *)
(* heap    the Python objects: a sequence of cells, an address is an index *)
(* charts  the Chart objects created so far, in creation order             *)
(* nsvg    the number of SVG documents the gateway has returned            *)
(* renders renders[c]: gateway render invocations made for chart c         *)
(* snap    snap[c]: the value of chart c's data and options at creation    *)
(* nmut    the number of user mutations made so far                        *)
(* last    the most recent operation, its operands and its outcome         *)
(* hvalues, hbins, hres  the arguments and the outcome of a hist call      *)
(* default_bridge  the module's _default_bridge: None or a gateway handle  *)
(* nbridge  the number of times D3DenoBridge.__init__ has run              *)
(* files   the temporary and output files and directories that exist       *)
(* script  the thread whose composition temp_compose.ts holds              *)
(* thread  thread[t]: the call thread t makes, its position and its locals *)
(***************************************************************************)
VARIABLES heap, charts, nsvg, renders, snap, nmut, last, hvalues, hbins, hres,
          default_bridge, nbridge, files, script, thread

chartVars == << heap, charts, nsvg, renders, snap, nmut, last >>
histVars == << hvalues, hbins, hres >>
gateVars == << default_bridge, nbridge, files, script, thread >>
vars == << heap, charts, nsvg, renders, snap, nmut, last, hvalues, hbins, hres,
          default_bridge, nbridge, files, script, thread >>

\* threads that call into the library at the same time
MaxThreads == 2
Threads == 1..MaxThreads

\* a thread that has not called yet: the call it makes (task) and its
\* arguments, its position (pc), the handle it built (mine) and the one it
\* was given (handle), the outcome of its external process (out), what its
\* call returned (ret, from the composition script of thread owner) or
\* raised (err, msg), and the rasterization request it sent (req)
Idle ==
    [pc |-> "idle", task |-> "none", scale |-> 1, dpi |-> 0, mine |-> 0, handle |-> 0,
     out |-> "", ret |-> "", owner |-> 0, err |-> "", msg |-> "", req |-> {}]

NoResult == [status |-> "none", bin_edges |-> << >>, data |-> << >>]
\* what the last operation was: its operands a and b (chart numbers), the chart
\* or SVG it returned (res), the exception it raised (err), the number of
\* gateway render calls it made (gw), its arguments and its layout operation
Op(op, a, b, res, err, gw, args, layout) ==
    [op |-> op, a |-> a, b |-> b, res |-> res, err |-> err, gw |-> gw,
     args |-> args, layout |-> layout]
NoOp == Op("none", 0, 0, 0, "", 0, << >>, "")


(***************************************************************************)
(* The heap.  A list cell holds items, a dict cell a function from keys to *)
(* values.  A value is a number, a string or an address; the items of a    *)
(* list are addresses iff its refs flag is set, and the value under a key  *)
(* is an address iff the key is one of RefKeys.  Address 0 is None.        *)
(***************************************************************************)
None == 0
NoneStr == "None"

ListCell(items, refs) == [t |-> "list", refs |-> refs, items |-> items]
DictCell(f) == [t |-> "dict", f |-> f]
EmptyDict == [k \in {} |-> 0]

RefKeys == {"data", "nodes", "edges", "colors", "legendOffset"}

\* the value of the object at address a, with every address followed
RECURSIVE Deep(_, _)
Deep(h, a) ==
    LET c == h[a]
    IN  IF c.t = "list"
        THEN [i \in 1..Len(c.items) |->
                IF c.refs THEN Deep(h, c.items[i]) ELSE c.items[i]]
        ELSE [k \in DOMAIN c.f |->
                IF k \in RefKeys THEN Deep(h, c.f[k]) ELSE c.f[k]]

DeepOrNone(h, a) == IF a = None THEN << >> ELSE Deep(h, a)

\* dict.get(key, default) and the truth value of dict.get(key)
DictGet(f, key, default) == IF key \in DOMAIN f THEN f[key] ELSE default
Truthy(f, key) == key \in DOMAIN f /\ f[key] # ""

\* len(obj) of a list or a dict
PyLen(cell) == IF cell.t = "list" THEN Len(cell.items) ELSE Cardinality(DOMAIN cell.f)

\* seq[from:to] of Python, from and to counted from 0
Slice(seq, from, to) ==
    LET hi == IF to < Len(seq) THEN to ELSE Len(seq)
    IN  IF from >= hi THEN << >> ELSE [i \in 1..(hi - from) |-> seq[from + i]]

Max(x, y) == IF y > x THEN y ELSE x

(***************************************************************************)
(* Chart.__init__ (lines 1461-1482).  A chart is a record; the fields data *)
(* and options hold addresses, svg the number of the SVG document (0 is    *)
(* None), width and height a number (0 is None), chart_type a string.      *)
(* "options or {}" allocates a new dict when options is None or empty.     *)
(***************************************************************************)
\* the heap after Chart(...), and the chart
NewChart(h, data, chart_type, options, svg, width, height) ==
    LET fresh == options = None \/ PyLen(h[options]) = 0
        h1 == IF fresh THEN Append(h, DictCell(EmptyDict)) ELSE h
    IN  [heap |-> h1,
         chart |-> [data |-> data, chart_type |-> chart_type,
                    options |-> IF fresh THEN Len(h1) ELSE options,
                    svg |-> svg, width |-> width, height |-> height]]

\* the data and options of a chart as values
Snapshot(h, c) == [data |-> DeepOrNone(h, c.data), options |-> Deep(h, c.options)]

\* what snap keeps of a chart: its value when it was created, whether a
\* convenience constructor made it, and the operands it was composed from
Snap(h, c, ctor, a, b) == Snapshot(h, c) @@ [ctor |-> ctor, a |-> a, b |-> b]

(***************************************************************************)
(* The rendering gateway (D3DenoBridge._call_deno_script, lines 151-221):  *)
(* a call returns an SVG document or raises RuntimeError.                  *)
(***************************************************************************)
GatewayOutcomes == {"ok", "fail"}

KnownTypes == {"bar", "line", "scatter", "hist", "heatmap", "graph", "graphviz", "composite"}

\* a variant of SvgAccess without the cache: the gateway is called even when
\* the chart holds an SVG
SvgAccess_uncached(st, c, out) ==
    LET ch == st.charts[c]
    IN  IF ch.svg = None /\ (ch.data = None \/ ch.chart_type \notin KnownTypes)
        THEN st @@ [err |-> "ValueError", gw |-> 0]
        ELSE IF out = "ok"
        THEN [charts |-> [st.charts EXCEPT ![c].svg = st.nsvg + 1],
              renders |-> [st.renders EXCEPT ![c] = @ + 1],
              nsvg |-> st.nsvg + 1, err |-> "", gw |-> 1]
        ELSE [charts |-> st.charts,
              renders |-> [st.renders EXCEPT ![c] = @ + 1],
              nsvg |-> st.nsvg, err |-> "RuntimeError", gw |-> 1]

\* Chart.svg / Chart._generate_svg (lines 1484-1515) on chart c, in a state
\* given by st = [charts, renders, nsvg]; out is the gateway's outcome
SvgAccess(st, c, out) ==
    LET ch == st.charts[c]
    IN  IF ch.svg # None THEN st @@ [err |-> "", gw |-> 0]
        ELSE IF ch.data = None \/ ch.chart_type = NoneStr \/ ch.chart_type \notin KnownTypes
        THEN st @@ [err |-> "ValueError", gw |-> 0]
        ELSE IF out = "ok"
        THEN [charts |-> [st.charts EXCEPT ![c].svg = st.nsvg + 1],
              renders |-> [st.renders EXCEPT ![c] = @ + 1],
              nsvg |-> st.nsvg + 1, err |-> "", gw |-> 1]
        ELSE [charts |-> st.charts,
              renders |-> [st.renders EXCEPT ![c] = @ + 1],
              nsvg |-> st.nsvg, err |-> "RuntimeError", gw |-> 1]

(***************************************************************************)
(* Allocation of the structures the constructors and the converter build.  *)
(***************************************************************************)
\* a list of new dicts: [heap, addr], addr the list's address
AllocListOfDicts(h, recs) ==
    LET n == Len(recs)
        h1 == h \o [i \in 1..n |-> DictCell(recs[i])]
    IN  [heap |-> Append(h1, ListCell([i \in 1..n |-> Len(h) + i], TRUE)),
         addr |-> Len(h1) + 1]

\* new series dicts, one per element [meta, points] of ss, each with a new
\* data list of new point dicts: [heap, addrs]
RECURSIVE AllocSeries(_, _)
AllocSeries(h, ss) ==
    IF Len(ss) = 0 THEN [heap |-> h, addrs |-> << >>]
    ELSE LET pl == AllocListOfDicts(h, ss[1].points)
             h1 == Append(pl.heap, DictCell(ss[1].meta @@ ("data" :> pl.addr)))
             rest == AllocSeries(h1, Tail(ss))
         IN  [heap |-> rest.heap, addrs |-> << Len(h1) >> \o rest.addrs]

\* a new list of addresses
AllocRefList(h, addrs) == [heap |-> Append(h, ListCell(addrs, TRUE)), addr |-> Len(h) + 1]

(***************************************************************************)
(* Options of a convenience constructor: _build_chart_options (lines       *)
(* 65-83) and the colors and legend entries the constructor adds.  o is    *)
(* [title, width, height, colors |-> [given, list]], NoneStr and None for  *)
(* an argument left out; extra are the constructor's own scalar options.   *)
(* The caller's colors list is stored as it is; legendOffset is a new list.*)
(***************************************************************************)
OptionsCells(h, o, extra, legend) ==
    LET h1 == IF o.colors.given THEN Append(h, ListCell(o.colors.list, FALSE)) ELSE h
        h2 == IF legend THEN Append(h1, ListCell(<< 0, 0 >>, FALSE)) ELSE h1
        f == (IF o.title # NoneStr THEN "title" :> o.title ELSE EmptyDict)
                @@ (IF o.width # None THEN "width" :> o.width ELSE EmptyDict)
                @@ (IF o.height # None THEN "height" :> o.height ELSE EmptyDict)
                @@ extra
                @@ (IF o.colors.given THEN "colors" :> Len(h1) ELSE EmptyDict)
                @@ (IF legend
                    THEN [legendPosition |-> "right", legendOffset |-> Len(h2),
                          legendStyle |-> "standard"]
                    ELSE EmptyDict)
    IN  [heap |-> Append(h2, DictCell(f)), addr |-> Len(h2) + 1]

NoColors == [given |-> FALSE, list |-> << >>]
Colors(list) == [given |-> TRUE, list |-> list]

\* zip(xs, ys): as long as the shorter
MinLen(xs, ys) == IF Len(xs) < Len(ys) THEN Len(xs) ELSE Len(ys)

\* str(label).strip() on the labels of the model
Strip(str) == IF str \in {" ", "  "} THEN "" ELSE str

(***************************************************************************)
(* The normalizers: the clean_data each constructor builds from its        *)
(* arguments, as [err, heap, data]; err names the exception raised.        *)
(***************************************************************************)
Raised(err) == [err |-> err, heap |-> << >>, data |-> None]
Built(r) == [err |-> "", heap |-> r.heap, data |-> r.addr]

\* variants of bar_data: one pairs categories and values as zip does and
\* checks nothing, one builds the records from the last pair to the first
bar_data_zip(h, in) ==
    Built(AllocListOfDicts(h,
        [i \in 1..MinLen(in.categories, in.values) |->
            [label |-> in.categories[i], value |-> Round(in.values[i], 1)]]))

bar_data_reversed(h, in) ==
    IF Len(in.categories) # Len(in.values) THEN Raised("ValueError")
    ELSE Built(AllocListOfDicts(h,
            [i \in 1..Len(in.categories) |->
                [label |-> in.categories[Len(in.categories) + 1 - i],
                 value |-> Round(in.values[Len(in.categories) + 1 - i], 1)]]))

\* bar, lines 499-522
bar_data(h, in) ==
    IF Len(in.categories) # Len(in.values) THEN Raised("ValueError")
    ELSE Built(AllocListOfDicts(h,
            [i \in 1..Len(in.categories) |->
                [label |-> in.categories[i], value |-> Round(in.values[i], 1)]]))

\* line, lines 613-667; in.multi says that x[0] is itself array-like,
\* in.label is [kind |-> "none" | "list" | "str", list, str]
line_labels(in) ==
    LET n == Len(in.x)
    IN  IF in.label.kind = "none" THEN [i \in 1..n |-> ""]
        ELSE IF in.label.kind = "list"
        THEN [i \in 1..Max(n, Len(in.label.list)) |->
                IF i <= Len(in.label.list) THEN in.label.list[i] ELSE ""]
        ELSE [i \in 1..Max(n, 1) |-> IF i = 1 THEN in.label.str ELSE ""]

xy_points(x, y) ==
    [i \in 1..MinLen(x, y) |-> [x |-> Round(x[i], 1), y |-> Round(y[i], 1)]]

\* in.yNone: y is left out, x holds the y values and range(len(x)) the x values
line_series(in) ==
    IF in.multi /\ ~in.yNone
    THEN [i \in 1..MinLen(in.x, in.y) |->
            [meta |-> [name |-> line_labels(in)[i]], points |-> xy_points(in.x[i], in.y[i])]]
    ELSE << [meta |-> [name |-> IF in.label.kind = "str" /\ Strip(in.label.str) # ""
                                THEN in.label.str ELSE ""],
             points |-> IF in.yNone
                        THEN xy_points([i \in 1..Len(in.x) |-> (i - 1) * One], in.x)
                        ELSE xy_points(in.x, in.y)] >>

\* the list of the series r = [heap, addrs]
series_list(r) == AllocRefList(r.heap, r.addrs)

line_data(h, in) == Built(series_list(AllocSeries(h, line_series(in))))

\* scatter, lines 760-794; in.size and in.labels are [given, list]
scatter_point(in, i) ==
    [x |-> Round(in.x[i], 1), y |-> Round(in.y[i], 1)]
        @@ (IF in.size.given THEN "size" :> Round(in.size.list[i], 1) ELSE EmptyDict)
        @@ (IF in.labels.given THEN "label" :> in.labels.list[i] ELSE EmptyDict)

scatter_data(h, in) ==
    IF in.size.given /\ Len(in.size.list) # Len(in.x) THEN Raised("ValueError")
    ELSE IF in.labels.given /\ Len(in.labels.list) # Len(in.x) THEN Raised("ValueError")
    ELSE Built(series_list(AllocSeries(h,
            << [meta |-> [name |-> IF in.label.kind = "str" /\ Strip(in.label.str) # ""
                                   THEN in.label.str ELSE ""],
                points |-> [i \in 1..MinLen(in.x, in.y) |-> scatter_point(in, i)]] >>)))

\* hist, lines 876-924
hist_built(h, r) ==
    IF r.status # "ok" THEN Raised(r.status) ELSE Built(AllocListOfDicts(h, r.data))

hist_data(h, in) == hist_built(h, hist_normalize(in.values, in.bins))

\* imshow, lines 1039-1081; in.matrix is a list of rows, in.annotations is
\* [given, rows]
imshow_cells(in) ==
    LET rows == Len(in.matrix)
        cols == Len(in.matrix[1])
    IN  [k \in 1..(rows * cols) |->
            LET y == (k - 1) \div cols
                x == (k - 1) % cols
            IN  [x |-> x, y |-> y, value |-> Round(in.matrix[y + 1][x + 1], 1)]
                    @@ (IF in.annotations.given
                        THEN "text" :> in.annotations.rows[y + 1][x + 1]
                        ELSE EmptyDict)]

imshow_data(h, in) ==
    IF Len(in.matrix) = 0 \/ Len(in.matrix[1]) = 0 THEN Raised("ValueError")
    ELSE IF \E i \in 1..Len(in.matrix) : Len(in.matrix[i]) # Len(in.matrix[1])
    THEN Raised("ValueError")
    ELSE IF in.annotations.given
            /\ (\/ Len(in.annotations.rows) # Len(in.matrix)
                \/ \E i \in 1..Len(in.matrix) :
                       Len(in.annotations.rows[i]) # Len(in.matrix[1]))
    THEN Raised("ValueError")
    ELSE Built(AllocListOfDicts(h, imshow_cells(in)))

\* graph, lines 1255-1295; in.nodes are [id, text, shape], in.edges
\* [source, target], in.layout the layout name.  The layouts of lines 1273-1274
\* are computed by the GraphViz engine before the data is built.
graphviz_layouts == {"dot", "neato", "circo", "fdp", "sfdp", "twopi"}

UsesGraphviz(op, in) == op = "graph" /\ in.layout \in graphviz_layouts

\* _calculate_graphviz_positions, lines 1137-1208: positioned nodes, ImportError
\* when the library is missing, RuntimeError when the engine fails
EngineOutcomes(op, in) == IF UsesGraphviz(op, in) THEN {"ok", "fail", "missing"} ELSE {"none"}
engine_error(eng) == IF eng = "missing" THEN "ImportError" ELSE "RuntimeError"
engine_used(op, in) == IF UsesGraphviz(op, in) THEN "graphviz" ELSE ""

\* the coordinate the engine gives node i; unpositioned nodes keep None
node_position(in, i) == IF in.layout \in graphviz_layouts THEN i * One ELSE NoneStr

\* a variant of graph_data that looks at the nodes only
graph_data_unchecked_edges(h, in) ==
    IF Len(in.nodes) = 0 THEN Raised("ValueError")
    ELSE LET ns == AllocListOfDicts(h,
                      [i \in 1..Len(in.nodes) |->
                          [id |-> in.nodes[i].id, text |-> in.nodes[i].text,
                           shape |-> in.nodes[i].shape, x |-> node_position(in, i),
                           y |-> node_position(in, i),
                           color |-> NoneStr, tooltip |-> NoneStr]])
             es == AllocListOfDicts(ns.heap,
                      [i \in 1..Len(in.edges) |->
                          [source |-> in.edges[i].source, target |-> in.edges[i].target,
                           label |-> NoneStr]])
         IN  [err |-> "",
              heap |-> Append(es.heap, DictCell([nodes |-> ns.addr, edges |-> es.addr])),
              data |-> Len(es.heap) + 1]

graph_data(h, in) ==
    LET node_ids == {in.nodes[i].id : i \in 1..Len(in.nodes)}
    IN  IF Len(in.nodes) = 0 THEN Raised("ValueError")
        ELSE IF \E i \in 1..Len(in.edges) :
                    in.edges[i].source \notin node_ids \/ in.edges[i].target \notin node_ids
        THEN Raised("ValueError")
        ELSE LET ns == AllocListOfDicts(h,
                          [i \in 1..Len(in.nodes) |->
                              [id |-> in.nodes[i].id, text |-> in.nodes[i].text,
                               shape |-> in.nodes[i].shape, x |-> node_position(in, i),
                               y |-> node_position(in, i),
                               color |-> NoneStr, tooltip |-> NoneStr]])
                 es == AllocListOfDicts(ns.heap,
                          [i \in 1..Len(in.edges) |->
                              [source |-> in.edges[i].source, target |-> in.edges[i].target,
                               label |-> NoneStr]])
             IN  [err |-> "",
                  heap |-> Append(es.heap, DictCell([nodes |-> ns.addr, edges |-> es.addr])),
                  data |-> Len(es.heap) + 1]

\* the constructor's own scalar options
ctor_extra(op, in) ==
    IF op = "heatmap"
    THEN [colormap |-> "viridis", rows |-> Len(in.matrix), cols |-> Len(in.matrix[1])]
    ELSE IF op = "graph" THEN [layout |-> "reverse"]
    ELSE [yticks |-> 5]

ctor_data(op, h, in) ==
    CASE op = "bar" -> bar_data(h, in)
      [] op = "line" -> line_data(h, in)
      [] op = "scatter" -> scatter_data(h, in)
      [] op = "hist" -> hist_data(h, in)
      [] op = "heatmap" -> imshow_data(h, in)
      [] op = "graph" -> graph_data(h, in)

(***************************************************************************)
(* Bounds of the chart specifications.                                     *)
(***************************************************************************)
\* charts created in one behaviour
MaxCharts == 3
\* charts created by the convenience constructors in one behaviour
MaxCtor == 2
\* gateway render invocations for one chart
MaxRenders == 2

Failed(op, a, b, err, gw, args) ==
    /\ last' = Op(op, a, b, 0, err, gw, args, "")
    /\ UNCHANGED << heap, charts, nsvg, renders, snap, nmut >>

\* a constructor that raised after its validation, with or without a call of
\* the layout engine
FailedAfter(op, err, gw, in) ==
    /\ last' = Op(op, 0, 0, 0, err, gw, in, engine_used(op, in))
    /\ UNCHANGED << heap, charts, nsvg, renders, snap, nmut >>

CtorCount == Cardinality({c \in 1..Len(charts) : snap[c].ctor})

(***************************************************************************)
(* A convenience constructor (bar 460-555, line 558-700, scatter 703-833,  *)
(* hist 836-957, imshow 960-1118, graph 1214-1317): normalize, build the   *)
(* options, render through the gateway, wrap the result in a Chart.        *)
(***************************************************************************)
\* the options and the Chart of a constructor whose data is norm: [heap, chart]
construct_chart(norm, op, in, o, svg) ==
    LET ob == OptionsCells(norm.heap, o, ctor_extra(op, in), op \notin {"heatmap", "graph"})
    IN  NewChart(ob.heap, norm.data, op, ob.addr, svg, o.width, o.height)

Construct(op, in, o) ==
    /\ Len(charts) < MaxCharts
    /\ CtorCount < MaxCtor
    /\ \E out \in GatewayOutcomes, eng \in EngineOutcomes(op, in),
          norm \in {ctor_data(op, heap, in)} :
         IF norm.err # "" THEN Failed(op, 0, 0, norm.err, 0, in)
         ELSE IF eng \in {"fail", "missing"} THEN FailedAfter(op, engine_error(eng), 0, in)
         ELSE IF out = "fail" THEN FailedAfter(op, "RuntimeError", 1, in)
         ELSE \E nc \in {construct_chart(norm, op, in, o, nsvg + 1)} :
                /\ heap' = nc.heap
                /\ charts' = Append(charts, nc.chart)
                /\ nsvg' = nsvg + 1
                /\ renders' = Append(renders, 1)
                /\ snap' = Append(snap, Snap(nc.heap, nc.chart, TRUE, 0, 0))
                /\ nmut' = nmut
                /\ last' = Op(op, 0, 0, Len(charts) + 1, "", 1, in, engine_used(op, in))
    /\ UNCHANGED << histVars, gateVars >>

(***************************************************************************)
(* Chart._convert_to_unified_format (lines 1658-1729): the series to       *)
(* allocate for chart c, as [heap, addrs], addrs the unified_data list.    *)
(***************************************************************************)
unified_point(point) ==
    [x |-> point.x, y |-> point.y]
        @@ (IF "size" \in DOMAIN point THEN "size" :> point.size ELSE EmptyDict)

\* the dicts a list of addresses points to
DictsAt(h, list) == [i \in 1..Len(h[list].items) |-> h[h[list].items[i]].f]

\* a variant of unified_bar whose points lose the category label
unified_bar_unlabelled(h, c) ==
    << [meta |-> [name |-> DictGet(h[c.options].f, "title", "Bar Data"), renderType |-> "bar"],
        points |-> [i \in 1..Len(DictsAt(h, c.data)) |->
                      [x |-> i - 1, y |-> DictsAt(h, c.data)[i].value]]] >>

unified_bar(h, c) ==
    LET items == DictsAt(h, c.data)
    IN  << [meta |-> [name |-> DictGet(h[c.options].f, "title", "Bar Data"),
                      renderType |-> "bar"],
            points |-> [i \in 1..Len(items) |->
                          [x |-> i - 1, y |-> items[i].value, label |-> items[i].label]]] >>

unified_series(h, c) ==
    LET series == DictsAt(h, c.data)
    IN  [j \in 1..Len(series) |->
            [meta |-> [name |-> series[j].name, renderType |-> c.chart_type],
             points |-> [i \in 1..Len(h[series[j].data].items) |->
                           unified_point(DictsAt(h, series[j].data)[i])]]]

unified_hist(h, c) ==
    LET items == DictsAt(h, c.data)
    IN  << [meta |-> [name |-> DictGet(h[c.options].f, "title", "Histogram"),
                      renderType |-> "histogram"],
            points |-> [i \in 1..Len(items) |->
                          [x |-> FDivInt(FAdd(items[i].binStart, items[i].binEnd), 2),
                           y |-> items[i].count,
                           binStart |-> items[i].binStart,
                           binEnd |-> items[i].binEnd]]] >>

\* lines 1720-1727: the series' data is the chart's own data list, or a new
\* list around the chart's data when that is no list
unified_other(h, c) ==
    LET isList == h[c.data].t = "list"
        h1 == IF isList THEN h ELSE Append(h, ListCell(<< c.data >>, TRUE))
        sd == DictCell([name |-> DictGet(h[c.options].f, "title", c.chart_type \o " Data"),
                        renderType |-> c.chart_type,
                        data |-> IF isList THEN c.data ELSE Len(h1)])
    IN  [heap |-> Append(h1, sd), addrs |-> << Len(h1) + 1 >>]

convert_to_unified_format(h, c) ==
    IF c.chart_type = "bar" THEN AllocSeries(h, unified_bar(h, c))
    ELSE IF c.chart_type \in {"line", "scatter"} THEN AllocSeries(h, unified_series(h, c))
    ELSE IF c.chart_type = "hist" THEN AllocSeries(h, unified_hist(h, c))
    ELSE unified_other(h, c)

(***************************************************************************)
(* Chart._overlay_charts (lines 1586-1656) for two charts that carry data. *)
(***************************************************************************)
\* lines 1587-1602: [heap, addr, chart_type] of the combined data
\* unified_data of self followed by that of other
concat_unified(addrs, ub) ==
    AllocRefList(ub.heap, addrs \o ub.addrs) @@ [chart_type |-> "composite"]

\* a variant of then_unified that leaves the second operand out
then_unified_first_only(ua, b) ==
    concat_unified(ua.addrs, [heap |-> ua.heap, addrs |-> << >>])

then_unified(ua, b) == concat_unified(ua.addrs, convert_to_unified_format(ua.heap, b))

\* a variant of combined_data that puts the second operand first
combined_data_swapped(h, a, b) ==
    IF a.chart_type = b.chart_type /\ a.chart_type \in {"line", "scatter"}
    THEN AllocRefList(h, h[b.data].items \o h[a.data].items)
            @@ [chart_type |-> a.chart_type]
    ELSE then_unified(convert_to_unified_format(h, b), a)

combined_data(h, a, b) ==
    IF a.chart_type = b.chart_type /\ a.chart_type \in {"line", "scatter"}
    THEN AllocRefList(h, h[a.data].items \o h[b.data].items)
            @@ [chart_type |-> a.chart_type]
    ELSE then_unified(convert_to_unified_format(h, a), b)

\* a variant of merged_title that never takes the second operand's title
merged_title_first_only(fa, fb) == EmptyDict

\* lines 1605-1609
merged_title(fa, fb) ==
    IF Truthy(fb, "title") /\ Truthy(fa, "title")
    THEN "title" :> (fa.title \o " & " \o fb.title)
    ELSE IF Truthy(fb, "title") /\ ~Truthy(fa, "title")
    THEN "title" :> fb.title
    ELSE EmptyDict

default_colors ==
    << "#658DCD", "#B1A04C", "#75A592", "#CF7280", "#A97ACC", "#C98C6C", "#E58BB7", "#7C7FB0" >>

\* options.get('colors', []) as a sequence
colors_of(h, f) == IF "colors" \in DOMAIN f THEN h[f.colors].items ELSE << >>

series_count(h, c) == IF PyLen(h[c.data]) # 0 THEN PyLen(h[c.data]) ELSE 1

\* lines 1611-1639
merged_colors(h, a, b) ==
    LET colors1 == colors_of(h, h[a.options].f)
        colors2 == colors_of(h, h[b.options].f)
        first == IF Len(colors1) # 0 THEN colors1
                 ELSE Slice(default_colors, 0, series_count(h, a))
        start_idx == Len(first)
    IN  first \o (IF Len(colors2) # 0 THEN colors2
                  ELSE Slice(default_colors, start_idx, start_idx + series_count(h, b)))

\* max() of two dimensions raises TypeError when one is None
DimsComparable(a, b) ==
    a.width # None /\ b.width # None /\ a.height # None /\ b.height # None

\* lines 1605-1647: merged_options, given the address of merged_colors
merged_options(h, a, b, colors) ==
    [width |-> Max(a.width, b.width), height |-> Max(a.height, b.height), colors |-> colors]
        @@ merged_title(h[a.options].f, h[b.options].f)
        @@ h[a.options].f

\* a variant of with_colors that also extends the first operand's own list
with_colors_in_place(h, a, b) ==
    Append(IF "colors" \in DOMAIN h[a.options].f
           THEN [h EXCEPT ![h[a.options].f.colors].items = merged_colors(h, a, b)]
           ELSE h,
           ListCell(merged_colors(h, a, b), FALSE))

with_colors(h, a, b) == Append(h, ListCell(merged_colors(h, a, b), FALSE))
with_options(h, a, b) == Append(h, DictCell(merged_options(h, a, b, Len(h))))

\* lines 1650-1656
overlay_chart(h, cd, a, b) ==
    NewChart(h, cd.addr, cd.chart_type, Len(h), None,
             Max(a.width, b.width), Max(a.height, b.height))

overlay_of(cd, a, b) ==
    overlay_chart(with_options(with_colors(cd.heap, a, b), a, b), cd, a, b)

\* lines 1586-1656: [heap, chart] of the overlay
overlay_result(h, a, b) == overlay_of(combined_data(h, a, b), a, b)

(***************************************************************************)
(* Chart._compose_charts (lines 1731-1801): both operands are rendered,    *)
(* self first, then the gateway lays the two SVGs out and answers with an  *)
(* SVG and its dimensions, or fails.                                       *)
(***************************************************************************)
GatewayDims == {[width |-> 640, height |-> 240], [width |-> 320, height |-> 480]}

\* the layout call (lines 1784-1787): an answer, a non-zero exit status, or no
\* answer within 30 seconds, which subprocess.run raises as TimeoutExpired
LayoutOutcomes == {"ok", "fail", "timeout"}
layout_error(outL) == IF outL = "fail" THEN "RuntimeError" ELSE "TimeoutExpired"

\* variants of compose_result: one ignores the dimensions of the gateway's
\* answer (Chart's defaults apply), one gives the result a kind
compose_result_default_dims(h, svg, dims) ==
    NewChart(h, None, NoneStr, None, svg, 320, 240)

compose_result_with_kind(h, svg, dims) ==
    NewChart(h, None, "composite", None, svg, dims.width, dims.height)

\* a variant of compose_result that drops the gateway's SVG
compose_result_unrendered(h, svg, dims) ==
    NewChart(h, None, NoneStr, None, None, dims.width, dims.height)

\* lines 1792-1796: [heap, chart]
compose_result(h, svg, dims) ==
    NewChart(h, None, NoneStr, None, svg, dims.width, dims.height)

\* the outcomes of the render call a read of chart c may make: none is made
\* for a chart that holds an SVG
RenderOutcomes(c) == IF charts[c].svg = None THEN GatewayOutcomes ELSE {"ok"}

\* a chart without an SVG may be rendered only MaxRenders times
MayRender(c) == charts[c].svg = None => renders[c] < MaxRenders

\* a variant of then_rendered that counts the second operand's render only
then_rendered_second_only(s1, r) == r

\* other.svg after self.svg gave s1; gw counts the render calls of both
then_rendered(s1, r) == [r EXCEPT !.gw = @ + s1.gw]

both_rendered(s1, b, outB) ==
    IF s1.err # "" THEN s1
    ELSE then_rendered(s1, SvgAccess([charts |-> s1.charts, renders |-> s1.renders,
                                      nsvg |-> s1.nsvg], b, outB))

\* what made a composition raise: an operand that cannot be rendered, a
\* failed render of an operand, or the failed layout call
compose_failure(err) ==
    IF err = "ValueError" THEN "operand" ELSE IF err # "" THEN "render" ELSE "layout"

compose_charts(op, a, b, layout) ==
    /\ MayRender(a) /\ MayRender(b)
    /\ \E outA \in RenderOutcomes(a), outB \in RenderOutcomes(b), outL \in LayoutOutcomes,
          dims \in GatewayDims :
         \E s2 \in {both_rendered(SvgAccess([charts |-> charts, renders |-> renders,
                                            nsvg |-> nsvg], a, outA), b, outB)} :
             IF s2.err # "" \/ outL # "ok"
             THEN /\ charts' = s2.charts
                  /\ renders' = s2.renders
                  /\ nsvg' = s2.nsvg
                  /\ last' = Op(op, a, b, 0, IF s2.err # "" THEN s2.err ELSE layout_error(outL),
                                s2.gw, [failed |-> compose_failure(s2.err)], layout)
                  /\ UNCHANGED << heap, snap, nmut >>
             ELSE \E nc \in {compose_result(heap, s2.nsvg + 1, dims)} :
                      /\ heap' = nc.heap
                      /\ charts' = Append(s2.charts, nc.chart)
                      /\ renders' = Append(s2.renders, 0)
                      /\ nsvg' = s2.nsvg + 1
                      /\ snap' = Append(snap, Snap(nc.heap, nc.chart, FALSE, a, b))
                      /\ nmut' = nmut
                      /\ last' = Op(op, a, b, Len(charts) + 1, "", s2.gw, dims, layout)

\* Chart.__add__ (lines 1553-1560)
Add(a, b) ==
    /\ Len(charts) < MaxCharts
    /\ compose_charts("add", a, b, "sideBySide")
    /\ UNCHANGED << histVars, gateVars >>

\* Chart.__truediv__ (lines 1562-1569)
TrueDiv(a, b) ==
    /\ Len(charts) < MaxCharts
    /\ compose_charts("truediv", a, b, "vertical")
    /\ UNCHANGED << histVars, gateVars >>

\* a variant of overlay_fallback: side by side
overlay_fallback_side_by_side == "sideBySide"

\* line 1584: the layout operation an overlay without data falls back to
overlay_fallback == "stack"

\* lines 1582-1584: which way an overlay goes
overlay_path(a, b) ==
    IF a.data = None \/ b.data = None THEN "stack" ELSE "metadata"

\* Chart.__mul__ / Chart._overlay_charts (lines 1543-1551, 1571-1656)
Mul(a, b) ==
    /\ Len(charts) < MaxCharts
    /\ IF overlay_path(charts[a], charts[b]) = "stack"
       THEN compose_charts("mul", a, b, overlay_fallback)
       ELSE IF ~DimsComparable(charts[a], charts[b])
       THEN Failed("mul", a, b, "TypeError", 0, << >>)
       ELSE \E r \in {overlay_result(heap, charts[a], charts[b])} :
                /\ heap' = r.heap
                /\ charts' = Append(charts, r.chart)
                /\ renders' = Append(renders, 0)
                /\ snap' = Append(snap, Snap(r.heap, r.chart, FALSE, a, b))
                /\ last' = Op("mul", a, b, Len(charts) + 1, "", 0, << >>, "")
                /\ UNCHANGED << nsvg, nmut >>
    /\ UNCHANGED << histVars, gateVars >>

(***************************************************************************)
(* A read of the rendered form: the svg property (1484-1489), which show   *)
(* (1517-1522) and _repr_html_ (1534-1537) read as it is, and save_svg     *)
(* (1830-1852), which wraps what the read raises in a RuntimeError.        *)
(***************************************************************************)
AccessKinds == {"svg", "save_svg"}

AccessSvg(c, how) ==
    /\ MayRender(c)
    /\ \E out \in RenderOutcomes(c) :
         \E s \in {SvgAccess([charts |-> charts, renders |-> renders, nsvg |-> nsvg], c, out)} :
             /\ charts' = s.charts
             /\ renders' = s.renders
             /\ nsvg' = s.nsvg
             /\ last' = Op(how, c, 0, IF s.err = "" THEN s.charts[c].svg ELSE 0,
                           IF s.err # "" /\ how = "save_svg" THEN "RuntimeError" ELSE s.err,
                           s.gw, << >>, "")
    /\ UNCHANGED << heap, snap, nmut, histVars, gateVars >>

(***************************************************************************)
(* The histogram specification: the arguments of one call of hist are      *)
(* drawn from the floats 0, 0.5, .. MaxVal and the bin counts 1 .. MaxBins *)
(* (the default count is DefaultBins), or from increasing user edges.      *)
(***************************************************************************)
DefaultBins == 20

Floats == {v \in 0..(MaxVal * One) : v % Half = 0 /\ IsFloat(v)}

SeqsUpTo(S, n) == UNION {[1..k -> S] : k \in 0..n}

IntBins(n) == [isInt |-> TRUE, n |-> n, edges |-> << >>]
EdgeBins(e) == [isInt |-> FALSE, n |-> 0, edges |-> e]

Increasing(s) == \A i \in 1..(Len(s) - 1) : s[i] < s[i + 1]

HistBinChoices ==
    {IntBins(n) : n \in (1..MaxBins) \cup {DefaultBins}}
        \cup {EdgeBins(e) : e \in {s \in SeqsUpTo(Floats, MaxEdges) : Len(s) >= 2 /\ Increasing(s)}}

HistInit ==
    /\ hvalues \in SeqsUpTo(Floats, MaxVals)
    /\ hbins \in HistBinChoices
    /\ hres = NoResult
    /\ heap = << >>
    /\ charts = << >>
    /\ nsvg = 0
    /\ renders = << >>
    /\ snap = << >>
    /\ nmut = 0
    /\ last = NoOp
    /\ default_bridge = None
    /\ nbridge = 0
    /\ files = {}
    /\ script = 0
    /\ thread = [t \in Threads |-> Idle]

HistCall ==
    /\ hres.status = "none"
    /\ hres' = hist_normalize(hvalues, hbins)
    /\ UNCHANGED << hvalues, hbins, chartVars, gateVars >>

SpecHist == HistInit /\ [][HistCall]_vars

HistDone == hres.status # "none"

RECURSIVE SumCounts(_)
SumCounts(data) ==
    IF Len(data) = 0 THEN 0 ELSE data[1].count + SumCounts(Tail(data))

AllEqual(s) == \A i \in 1..Len(s) : s[i] = s[1]

\* C9: for a bin count n >= 1 and values that are not all equal, hist yields
\* n + 1 strictly increasing edges from min(values) to max(values), and the
\* bin counts sum to the number of values.
C9_AutoEdgesCoverAllValues ==
    (HistDone /\ hbins.isInt /\ hbins.n >= 1 /\ Len(hvalues) >= 1 /\ ~AllEqual(hvalues))
        => /\ hres.status = "ok"
           /\ Len(hres.bin_edges) = hbins.n + 1
           /\ hres.bin_edges[1] = SeqMin(hvalues)
           /\ hres.bin_edges[hbins.n + 1] = SeqMax(hvalues)
           /\ Increasing(hres.bin_edges)
           /\ SumCounts(hres.data) = Len(hvalues)

\* the input of C9's failure that drops a value: hist([0.0, 1.0], bins=19)
C9_DroppedMaximum ==
    /\ HistDone /\ hbins.isInt /\ hbins.n = 19 /\ hvalues = << 0, One >>
    /\ hres.status = "ok"
    /\ hres.bin_edges[20] < One
    /\ SumCounts(hres.data) = 1

\* C10: for every integer bin count and values all equal to v, hist succeeds
\* with the single bin [v - 0.5, v + 0.5] holding every value.
C10_DegenerateSingleBin ==
    (HistDone /\ hbins.isInt /\ Len(hvalues) >= 1 /\ AllEqual(hvalues))
        => /\ hres.status = "ok"
           /\ hres.data = << [binStart |-> hvalues[1] - Half,
                              binEnd |-> hvalues[1] + Half,
                              count |-> Len(hvalues)] >>

\* the degenerate call with the default bin count raises IndexError
C10_DefaultBinsRaise ==
    /\ HistDone /\ hbins = IntBins(DefaultBins) /\ Len(hvalues) = 3 /\ AllEqual(hvalues)
    /\ hres.status = "IndexError"

\* value lies in bin k (1..n) of edges: [start, end), the last bin [start, end]
InBin(edges, k, value) ==
    /\ edges[k] <= value
    /\ IF k = Len(edges) - 1 THEN value <= edges[k + 1] ELSE value < edges[k + 1]

BinsOf(edges, value) == {k \in 1..(Len(edges) - 1) : InBin(edges, k, value)}

\* C11: every bin but the last is [start, end), the last is [start, end]; the
\* count of a bin is the number of values in it, no value lies in two bins,
\* and with generated edges the largest value is counted.
C11_HalfOpenBins ==
    (HistDone /\ hres.status = "ok")
        => /\ \A k \in 1..Len(hres.data) :
                 hres.data[k].count
                    = Cardinality({j \in 1..Len(hvalues) : InBin(hres.bin_edges, k, hvalues[j])})
           /\ \A j \in 1..Len(hvalues) : Cardinality(BinsOf(hres.bin_edges, hvalues[j])) <= 1
           /\ hbins.isInt => BinsOf(hres.bin_edges, SeqMax(hvalues)) # {}

\* generated edges whose last edge lies below the largest value, which is
\* then in no bin, with three values
C11_MaximumInNoBin ==
    /\ HistDone /\ hres.status = "ok" /\ hbins.isInt /\ Len(hvalues) = 3
    /\ BinsOf(hres.bin_edges, SeqMax(hvalues)) = {}
    /\ SumCounts(hres.data) < Len(hvalues)

InRange(edges, values) ==
    {j \in 1..Len(values) : edges[1] <= values[j] /\ values[j] <= edges[Len(edges)]}

\* C12: with increasing edges e[0..k] given by the caller, hist returns k
\* bins between consecutive edges and raises nothing; the counts sum to the
\* number of values v with e[0] <= v <= e[k].
C12_GivenEdgesDropOutside ==
    (HistDone /\ ~hbins.isInt)
        => /\ hres.status = "ok"
           /\ Len(hres.data) = Len(hbins.edges) - 1
           /\ \A k \in 1..Len(hres.data) :
                 /\ hres.data[k].binStart = hbins.edges[k]
                 /\ hres.data[k].binEnd = hbins.edges[k + 1]
           /\ SumCounts(hres.data) = Cardinality(InRange(hbins.edges, hvalues))

\* three edges, one value below them, one on the last edge, one above them
C12_BelowOnAndAbove ==
    /\ HistDone /\ ~hbins.isInt /\ Len(hbins.edges) = 3 /\ Len(hvalues) = 3
    /\ \E j \in 1..3 : hvalues[j] < hbins.edges[1]
    /\ \E j \in 1..3 : hvalues[j] = hbins.edges[3]
    /\ \E j \in 1..3 : hvalues[j] > hbins.edges[3]
    /\ hres.status = "ok" /\ SumCounts(hres.data) = 1

(***************************************************************************)
(* In-place changes a caller makes through a chart's public attributes     *)
(* (Chart.__init__ keeps data and options by reference, lines 1474-1476):  *)
(*   pop     chart.data.pop()                                              *)
(*   record  chart.data[0]['tag'] = 'changed'  (data['nodes'][0] of graph) *)
(*   point   chart.data[0]['data'][0]['y'] = 99                            *)
(*   title   chart.options['title'] = 'changed'                            *)
(*   legend  chart.options['legendOffset'][0] = 9                          *)
(***************************************************************************)
MaxMutations == 1

MutationKinds == {"pop", "record", "point", "title", "legend"}

IsList(h, a) == a # None /\ h[a].t = "list"
HasItems(h, a) == IsList(h, a) /\ Len(h[a].items) > 0

\* the address of the first record of a chart's data, or None
first_record(h, c) ==
    IF HasItems(h, c.data) THEN h[c.data].items[1]
    ELSE IF c.data # None /\ h[c.data].t = "dict" /\ "nodes" \in DOMAIN h[c.data].f
            /\ HasItems(h, h[c.data].f.nodes)
    THEN h[h[c.data].f.nodes].items[1]
    ELSE None

\* the address of the first point of the first series of a chart, or None
first_point(h, c) ==
    IF HasItems(h, c.data) /\ "data" \in DOMAIN h[h[c.data].items[1]].f
        /\ HasItems(h, h[h[c.data].items[1]].f.data)
    THEN h[h[h[c.data].items[1]].f.data].items[1]
    ELSE None

CanMutate(h, c, kind) ==
    CASE kind = "pop" -> HasItems(h, c.data)
      [] kind = "record" -> first_record(h, c) # None
      [] kind = "point" -> first_point(h, c) # None
      [] kind = "title" -> TRUE
      [] kind = "legend" -> "legendOffset" \in DOMAIN h[c.options].f

SetKey(h, addr, key, val) == [h EXCEPT ![addr].f = (key :> val) @@ @]

mutated(h, c, kind) ==
    CASE kind = "pop" -> [h EXCEPT ![c.data].items = SubSeq(@, 1, Len(@) - 1)]
      [] kind = "record" -> SetKey(h, first_record(h, c), "tag", "changed")
      [] kind = "point" -> SetKey(h, first_point(h, c), "y", 99)
      [] kind = "title" -> SetKey(h, c.options, "title", "changed")
      [] kind = "legend" -> [h EXCEPT ![h[c.options].f.legendOffset].items[1] = 9]

Mutate(c, kind) ==
    /\ nmut < MaxMutations
    /\ CanMutate(heap, charts[c], kind)
    /\ heap' = mutated(heap, charts[c], kind)
    /\ nmut' = nmut + 1
    /\ last' = Op("mutate", c, 0, 0, "", 0, << kind >>, "")
    /\ UNCHANGED << charts, nsvg, renders, snap, histVars, gateVars >>

(***************************************************************************)
(* The calls of the convenience constructors the specifications make.      *)
(***************************************************************************)
NoLabel == [kind |-> "none", list |-> << >>, str |-> ""]
NotGiven == [given |-> FALSE, list |-> << >>]
Given(list) == [given |-> TRUE, list |-> list]

BarInputs ==
    << [categories |-> << "a", "b" >>, values |-> << One, 2 * One >>],
      [categories |-> << "a" >>, values |-> << One, One >>] >>

LineInputs ==
    << [multi |-> FALSE, yNone |-> FALSE, x |-> << 0, One >>, y |-> << One, 2 * One >>,
       label |-> NoLabel],
      [multi |-> TRUE, yNone |-> FALSE,
       x |-> << << 0, One >>, << 0, One >> >>, y |-> << << 0, One >>, << One, 0 >> >>,
       label |-> [kind |-> "list", list |-> << "s1", "s2" >>, str |-> ""]],
      [multi |-> FALSE, yNone |-> TRUE, x |-> << One, 0, One >>, y |-> << >>,
       label |-> [kind |-> "str", list |-> << >>, str |-> "s"]] >>

ScatterInputs ==
    << [x |-> << 0, One >>, y |-> << One, 0 >>, size |-> Given(<< One, 2 * One >>),
       labels |-> Given(<< "p", "q" >>), label |-> NoLabel],
      [x |-> << 0, One >>, y |-> << One, 0 >>, size |-> Given(<< One >>),
       labels |-> NotGiven, label |-> NoLabel] >>

HistInputs ==
    << [values |-> << 0, One, One >>, bins |-> IntBins(2)] >>

ImshowInputs ==
    << [matrix |-> << << 0, One >> >>, annotations |-> [given |-> FALSE, rows |-> << >>]] >>

GraphInputs ==
    << [nodes |-> << [id |-> "n1", text |-> "N1", shape |-> "circle"],
                    [id |-> "n2", text |-> "N2", shape |-> "square"] >>,
       edges |-> << [source |-> "n1", target |-> "n2"] >>, layout |-> "reverse"] >>

\* title, width, height and colors of a call; NoneStr is title=None
Options(title, width, height, colors) ==
    [title |-> title, width |-> width, height |-> height, colors |-> colors]

OptionChoices ==
    << Options(NoneStr, 320, 240, NoColors),
      Options("A", 320, 240, Colors(<< "red" >>)),
      Options("", 640, 480, NoColors),
      Options("B", 640, 240, NoColors) >>

\* graph has width=None, height=None by default and takes no colors
GraphOptionChoices ==
    << Options(NoneStr, None, None, NoColors), Options("G", 320, 240, NoColors) >>

ImshowOptionChoices ==
    << Options(NoneStr, 320, 240, NoColors), Options("M", 640, 240, NoColors) >>

\* every input with every choice of options, as a sequence of calls
Calls(op, inputs, options) ==
    [k \in 1..(Len(inputs) * Len(options)) |->
        [op |-> op, in |-> inputs[((k - 1) \div Len(options)) + 1],
         o |-> options[((k - 1) % Len(options)) + 1]]]

CtorCalls ==
    Calls("bar", BarInputs, OptionChoices)
        \o Calls("line", LineInputs, OptionChoices)
        \o Calls("scatter", ScatterInputs, OptionChoices)
        \o Calls("hist", HistInputs, OptionChoices)
        \o Calls("heatmap", ImshowInputs, ImshowOptionChoices)
        \o Calls("graph", GraphInputs, GraphOptionChoices)

\* calls whose arguments disagree with each other, and graphs laid out by
\* the GraphViz engine
UnequalLineInputs ==
    << [multi |-> FALSE, yNone |-> FALSE, x |-> << 0, One >>, y |-> << One >>,
       label |-> NoLabel],
      [multi |-> FALSE, yNone |-> FALSE, x |-> << 0 >>, y |-> << One, 0 >>,
       label |-> NoLabel],
      [multi |-> TRUE, yNone |-> FALSE,
       x |-> << << 0, One >>, << 0, One >> >>, y |-> << << 0, One >>, << One >> >>,
       label |-> NoLabel] >>

UnequalScatterInputs ==
    << [x |-> << 0, One >>, y |-> << One >>, size |-> NotGiven,
       labels |-> NotGiven, label |-> NoLabel],
      [x |-> << 0 >>, y |-> << One, 0 >>, size |-> Given(<< One >>),
       labels |-> NotGiven, label |-> NoLabel] >>

UnequalBarInputs ==
    << [categories |-> << "a", "b", "c" >>, values |-> << One >>],
      [categories |-> << >>, values |-> << >>],
      [categories |-> << "b", "a", "b" >>, values |-> << 2 * One, 0, -One >>] >>

EngineGraphInputs ==
    << [nodes |-> << [id |-> "n1", text |-> "N1", shape |-> "circle"],
                    [id |-> "n2", text |-> "N2", shape |-> "square"] >>,
       edges |-> << [source |-> "n1", target |-> "n2"] >>, layout |-> "dot"],
      [nodes |-> << [id |-> "n1", text |-> "N1", shape |-> "circle"] >>,
       edges |-> << [source |-> "n1", target |-> "n3"] >>, layout |-> "dot"],
      [nodes |-> << [id |-> "n1", text |-> "N1", shape |-> "circle"] >>,
       edges |-> << [source |-> "n0", target |-> "n1"] >>, layout |-> "reverse"],
      [nodes |-> << [id |-> "n1", text |-> "N1", shape |-> "circle"],
                    [id |-> "n2", text |-> "N2", shape |-> "square"] >>,
       edges |-> << [source |-> "n1", target |-> "n2"],
                    [source |-> "n2", target |-> "n4"] >>, layout |-> "neato"],
      [nodes |-> << >>, edges |-> << >>, layout |-> "dot"] >>

\* calls without points, values or cells
EmptyCalls ==
    << [op |-> "line", o |-> OptionChoices[1],
        in |-> [multi |-> FALSE, yNone |-> FALSE, x |-> << >>, y |-> << >>, label |-> NoLabel]],
       [op |-> "scatter", o |-> OptionChoices[1],
        in |-> [x |-> << >>, y |-> << >>, size |-> NotGiven, labels |-> NotGiven,
                label |-> NoLabel]],
       [op |-> "hist", o |-> OptionChoices[1], in |-> [values |-> << >>, bins |-> IntBins(2)]],
       [op |-> "heatmap", o |-> ImshowOptionChoices[1],
        in |-> [matrix |-> << >>, annotations |-> [given |-> FALSE, rows |-> << >>]]] >>

ArgumentCalls ==
    CtorCalls
        \o EmptyCalls
        \o Calls("bar", UnequalBarInputs, OptionChoices)
        \o Calls("line", UnequalLineInputs, OptionChoices)
        \o Calls("scatter", UnequalScatterInputs, OptionChoices)
        \o Calls("graph", EngineGraphInputs, GraphOptionChoices)

(***************************************************************************)
(* The chart specifications.  Spec: construction, composition and reads of *)
(* the rendered form.  SpecAlias: construction, overlay and in-place       *)
(* changes by the caller.                                                  *)
(***************************************************************************)
Init ==
    /\ heap = << >>
    /\ charts = << >>
    /\ nsvg = 0
    /\ renders = << >>
    /\ snap = << >>
    /\ nmut = 0
    /\ last = NoOp
    /\ hvalues = << >>
    /\ hbins = IntBins(1)
    /\ hres = NoResult
    /\ default_bridge = None
    /\ nbridge = 0
    /\ files = {}
    /\ script = 0
    /\ thread = [t \in Threads |-> Idle]

Next ==
    \/ \E k \in 1..Len(CtorCalls) :
         Construct(CtorCalls[k].op, CtorCalls[k].in, CtorCalls[k].o)
    \/ \E a \in 1..Len(charts), b \in 1..Len(charts) : Mul(a, b)
    \/ \E a \in 1..Len(charts), b \in 1..Len(charts) : Add(a, b)
    \/ \E a \in 1..Len(charts), b \in 1..Len(charts) : TrueDiv(a, b)
    \/ \E c \in 1..Len(charts), how \in AccessKinds : AccessSvg(c, how)

Spec == Init /\ [][Next]_vars

\* SpecOverlay: construction and overlay, with a histogram of as many bins
\* as the palette has colours
WideHistInputs ==
    << [values |-> << 0, One, One >>, bins |-> IntBins(8)] >>

OverlayCalls == CtorCalls \o Calls("hist", WideHistInputs, OptionChoices)

OverlayInit ==
    /\ heap = << >>
    /\ charts = << >>
    /\ nsvg = 0
    /\ renders = << >>
    /\ snap = << >>
    /\ nmut = 0
    /\ last = NoOp
    /\ hvalues = << >>
    /\ hbins = IntBins(1)
    /\ hres = NoResult
    /\ default_bridge = None
    /\ nbridge = 0
    /\ files = {}
    /\ script = 0
    /\ thread = [t \in Threads |-> Idle]

NextOverlay ==
    \/ \E k \in 1..Len(OverlayCalls) :
         Construct(OverlayCalls[k].op, OverlayCalls[k].in, OverlayCalls[k].o)
    \/ \E a \in 1..Len(charts), b \in 1..Len(charts) : Mul(a, b)

SpecOverlay == OverlayInit /\ [][NextOverlay]_vars

\* SpecCtor: the convenience constructors alone, on more arguments
CtorInit ==
    /\ heap = << >>
    /\ charts = << >>
    /\ nsvg = 0
    /\ renders = << >>
    /\ snap = << >>
    /\ nmut = 0
    /\ last = NoOp
    /\ hvalues = << >>
    /\ hbins = IntBins(1)
    /\ hres = NoResult
    /\ default_bridge = None
    /\ nbridge = 0
    /\ files = {}
    /\ script = 0
    /\ thread = [t \in Threads |-> Idle]

NextCtor ==
    \E k \in 1..Len(ArgumentCalls) :
        Construct(ArgumentCalls[k].op, ArgumentCalls[k].in, ArgumentCalls[k].o)

SpecCtor == CtorInit /\ [][NextCtor]_vars

AliasInit ==
    /\ heap = << >>
    /\ charts = << >>
    /\ nsvg = 0
    /\ renders = << >>
    /\ snap = << >>
    /\ nmut = 0
    /\ last = NoOp
    /\ hvalues = << >>
    /\ hbins = IntBins(1)
    /\ hres = NoResult
    /\ default_bridge = None
    /\ nbridge = 0
    /\ files = {}
    /\ script = 0
    /\ thread = [t \in Threads |-> Idle]

NextAlias ==
    \/ \E k \in 1..Len(CtorCalls) :
         Construct(CtorCalls[k].op, CtorCalls[k].in, CtorCalls[k].o)
    \/ \E a \in 1..Len(charts), b \in 1..Len(charts) : Mul(a, b)
    \/ \E c \in 1..Len(charts), kind \in MutationKinds : Mutate(c, kind)

SpecAlias == AliasInit /\ [][NextAlias]_vars

(***************************************************************************)
(* The claims about composition and rendering.  After an operation, last   *)
(* names its operands and its result.                                      *)
(***************************************************************************)
Self == charts[last.a]
Other == charts[last.b]
Result == charts[last.res]

\* the last operation was self * other on two charts with data, and returned
Overlaid == last.op = "mul" /\ last.layout = "" /\ last.res # 0

DataOf(c) == Deep(heap, c.data)
OptionsOf(c) == heap[c.options].f

IsOpaque(c) == c.svg # None /\ c.data = None /\ c.chart_type = NoneStr

\* C1: the overlay of two line charts with m and n series is a line chart
\* whose data is the first operand's m series followed by the second's n.
C1_LineOverlayConcatenates ==
    (Overlaid /\ Self.chart_type = "line" /\ Other.chart_type = "line")
        => /\ Result.chart_type = "line"
           /\ Len(DataOf(Result)) = Len(DataOf(Self)) + Len(DataOf(Other))
           /\ DataOf(Result) = DataOf(Self) \o DataOf(Other)

\* a two-series line chart overlaid with a different one-series line chart
C1_TwoPlusOneSeries ==
    /\ Overlaid /\ Self.chart_type = "line" /\ Other.chart_type = "line"
    /\ Len(DataOf(Self)) = 2 /\ Len(DataOf(Other)) = 1
    /\ DataOf(Self)[1] # DataOf(Other)[1]
    /\ Len(DataOf(Result)) = 3

\* C2: a change made through an operand after c = a * b leaves the data and
\* the options of c as they were.
C2_OverlayOwnsStorage ==
    [][\A r \in 1..Len(charts) :
          (/\ last'.op = "mutate" /\ nmut' = nmut + 1
           /\ snap[r].a # 0 /\ charts[r].data # None
           /\ last'.a \in {snap[r].a, snap[r].b} /\ last'.a # r)
              => Snapshot(heap', charts[r]) = Snapshot(heap, charts[r])]_vars

\* a change of an operand's legend offset shows in the overlay made from it
C2_SharedLegendOffset ==
    /\ last.op = "mutate" /\ last.args = << "legend" >>
    /\ \E r \in 1..Len(charts) :
          /\ snap[r].a # 0 /\ charts[r].data # None
          /\ last.a \in {snap[r].a, snap[r].b} /\ last.a # r
          /\ Snapshot(heap, charts[r]).options # snap[r].options
          /\ Snapshot(heap, charts[r]).options.legendOffset = << 9, 0 >>

SameKind(kind) ==
    last.op = "mul" /\ Self.chart_type = kind /\ Other.chart_type = kind

BarPoints(data) ==
    [i \in 1..Len(data) |-> [x |-> i - 1, y |-> data[i].value, label |-> data[i].label]]
HistPoints(data) ==
    [i \in 1..Len(data) |->
        [x |-> FDivInt(FAdd(data[i].binStart, data[i].binEnd), 2), y |-> data[i].count,
         binStart |-> data[i].binStart, binEnd |-> data[i].binEnd]]

C4_BarLineComposite ==
    (last.op = "mul" /\ Self.chart_type = "bar" /\ Other.chart_type = "line"
        /\ DimsComparable(Self, Other))
        => /\ last.err = "" /\ last.res # 0
           /\ Result.chart_type = "composite"
           /\ Len(DataOf(Result)) = 1 + Len(DataOf(Other))
           /\ DataOf(Result)[1].renderType = "bar"
           /\ DataOf(Result)[1].data = BarPoints(DataOf(Self))
           /\ \A j \in 1..Len(DataOf(Other)) :
                 /\ DataOf(Result)[1 + j].renderType = "line"
                 /\ DataOf(Result)[1 + j].name = DataOf(Other)[j].name
                 /\ DataOf(Result)[1 + j].data = DataOf(Other)[j].data

\* a bar chart overlaid with a two-series line chart
C4_BarWithTwoLines ==
    /\ last.op = "mul" /\ Self.chart_type = "bar" /\ Other.chart_type = "line"
    /\ Len(DataOf(Other)) = 2 /\ last.res # 0 /\ Len(DataOf(Result)) = 3
    /\ DataOf(Result)[1].data[2] = [x |-> 1, y |-> 2 * One, label |-> "b"]

RenderOnly(c) == c.data = None /\ c.svg # None

C6_ComposeOpaque ==
    (last.op \in {"add", "truediv"})
        => /\ last.layout = (IF last.op = "add" THEN "sideBySide" ELSE "vertical")
           /\ last.err # "" => (last.res = 0 /\ last.args.failed \in {"render", "layout"})
           /\ last.err = "" => /\ last.res # 0
                               /\ IsOpaque(Result)
                               /\ Result.svg = nsvg
                               /\ Result.width = last.args.width
                               /\ Result.height = last.args.height

\* a render-only chart composed with a chart of another kind
C6_RenderOnlyOperand ==
    /\ last.op \in {"add", "truediv"} /\ last.res # 0
    /\ RenderOnly(Self) /\ Self.chart_type = NoneStr /\ Other.chart_type # NoneStr
    /\ IsOpaque(Result) /\ Result.width # Self.width

HasTitle(c) == Truthy(OptionsOf(c), "title")

\* C7: the title of an overlay is "<first> & <second>" when both operands
\* have a title, the one title when one operand has a title, and absent when
\* neither has; a title is a non-empty string.
C7_TitleMerge ==
    Overlaid
        => /\ (HasTitle(Self) /\ HasTitle(Other))
                => OptionsOf(Result).title
                     = OptionsOf(Self).title \o " & " \o OptionsOf(Other).title
           /\ (HasTitle(Self) /\ ~HasTitle(Other))
                => OptionsOf(Result).title = OptionsOf(Self).title
           /\ (~HasTitle(Self) /\ HasTitle(Other))
                => OptionsOf(Result).title = OptionsOf(Other).title
           /\ (~HasTitle(Self) /\ ~HasTitle(Other)) => ~HasTitle(Result)

\* charts titled "A" and "B" overlaid
C7_BothTitled ==
    /\ Overlaid /\ HasTitle(Self) /\ HasTitle(Other)
    /\ OptionsOf(Self).title = "A" /\ OptionsOf(Other).title = "B"
    /\ OptionsOf(Result).title = "A & B"

\* C8 as stated: a chart with data whose rendered form is there has had
\* exactly one gateway render call.
C8_RenderedExactlyOnce ==
    \A c \in 1..Len(charts) :
        (charts[c].svg # None /\ charts[c].data # None) => renders[c] = 1

\* C8 as the code has it: a chart made by a constructor is rendered once,
\* when it is made; and once a chart holds an SVG, no step calls the gateway
\* for it or changes the SVG, and a read returns that SVG.
C8_RenderCached ==
    /\ [](\A c \in 1..Len(charts) :
            snap[c].ctor => (charts[c].svg # None /\ renders[c] = 1))
    /\ [][\A c \in 1..Len(charts) :
            charts[c].svg # None
                => /\ charts'[c].svg = charts[c].svg
                   /\ renders'[c] = renders[c]
                   /\ (last'.op \in AccessKinds /\ last'.a = c /\ last' # last)
                        => (last'.res = charts[c].svg /\ last'.gw = 0 /\ last'.err = "")]_vars

\* a read of a cached SVG, after the first render of the chart had failed
C8_CachedAfterRetry ==
    /\ last.op \in AccessKinds /\ last.gw = 0 /\ last.res # 0
    /\ charts[last.a].svg = last.res
    /\ renders[last.a] = 2

\* the last operation was a call of constructor op
Called(op) == last.op = op
\* ... that raised before any render call and any layout-engine call
RaisedEarly == last.err # "" /\ last.res = 0 /\ last.gw = 0 /\ last.layout = ""

\* x and y of a line or scatter call differ in length, as a whole or in one
\* of the series
UnequalXY(op, in) ==
    IF op = "line" /\ in.yNone THEN FALSE
    ELSE IF op = "line" /\ in.multi
    THEN \/ Len(in.x) # Len(in.y)
         \/ \E i \in 1..MinLen(in.x, in.y) : Len(in.x[i]) # Len(in.y[i])
    ELSE Len(in.x) # Len(in.y)

\* C13: line and scatter raise, before any render call, when x and y differ
\* in length (as a whole, or in one series of a multi-series call); no
\* chart is made from truncated data.
C13_UnequalXYRaises ==
    ((Called("line") \/ Called("scatter")) /\ UnequalXY(last.op, last.args))
        => RaisedEarly

\* a line chart made from x of length 2 and y of length 1: one point
C13_TruncatedLine ==
    /\ Called("line") /\ ~last.args.multi /\ ~last.args.yNone
    /\ Len(last.args.x) = 2 /\ Len(last.args.y) = 1
    /\ last.res # 0 /\ last.gw = 1
    /\ Len(DataOf(Result)[1].data) = 1

C15_BarRecordsInOrder ==
    (Called("bar") /\ last.res # 0)
        => /\ Result.chart_type = "bar"
           /\ Len(last.args.categories) = Len(last.args.values)
           /\ DataOf(Result)
                 = [i \in 1..Len(last.args.categories) |->
                       [label |-> last.args.categories[i], value |-> last.args.values[i]]]

\* three bars, two of them with the same label, one with a negative value
C15_RepeatedLabel ==
    /\ Called("bar") /\ last.res # 0
    /\ Len(DataOf(Result)) = 3
    /\ DataOf(Result)[1].label = DataOf(Result)[3].label
    /\ DataOf(Result)[3].value < 0

UnknownEndpoint(in) ==
    \E i \in 1..Len(in.edges) :
        \/ in.edges[i].source \notin {in.nodes[j].id : j \in 1..Len(in.nodes)}
        \/ in.edges[i].target \notin {in.nodes[j].id : j \in 1..Len(in.nodes)}

OverlayCall == last.op = "mul" /\ Self.data # None /\ Other.data # None

SeriesKinds == {"line", "scatter", "bar", "hist"}
\* the series a chart owns in an overlay: a bar chart or histogram owns one
Owned(c) == IF c.chart_type \in {"bar", "hist"} THEN 1 ELSE Len(DataOf(c))

ExplicitColors(c) == "colors" \in DOMAIN OptionsOf(c)
ColorsOf(c) == heap[OptionsOf(c).colors].items

\* C17: the overlay of charts owning s1 and s2 series has exactly s1 + s2
\* colours, the first operand's explicit colours first.
C17_OneColorPerSeries ==
    (Overlaid /\ Self.chart_type \in SeriesKinds /\ Other.chart_type \in SeriesKinds)
        => /\ Len(ColorsOf(Result)) = Owned(Self) + Owned(Other)
           /\ ExplicitColors(Self)
                => SubSeq(ColorsOf(Result), 1, Owned(Self)) = ColorsOf(Self)

\* a default-coloured bar chart of two bars over a single line: the overlay
\* has two series and three colours
C17_BarTakesColorPerBar ==
    /\ Overlaid /\ Self.chart_type = "bar" /\ Other.chart_type = "line"
    /\ ~ExplicitColors(Self) /\ ~ExplicitColors(Other)
    /\ Len(DataOf(Self)) = 2
    /\ Len(DataOf(Result)) = 2
    /\ Len(ColorsOf(Result)) = 3

\* the colours the overlay allocated to its first operand
Allocated(c) ==
    IF ExplicitColors(c) /\ Len(ColorsOf(c)) # 0 THEN Len(ColorsOf(c))
    ELSE Len(Slice(default_colors, 0, series_count(heap, c)))

\* C18: a second operand without explicit colours gets, for each series it
\* owns, the palette entries from index k on, k the number of colours
\* allocated to the first operand.
C18_DefaultsContinue ==
    (Overlaid /\ Self.chart_type \in SeriesKinds /\ Other.chart_type \in SeriesKinds
        /\ ~ExplicitColors(Other))
        => \A i \in 1..Owned(Other) :
              /\ Allocated(Self) + i <= Len(ColorsOf(Result))
              /\ Allocated(Self) + i <= Len(default_colors)
              /\ ColorsOf(Result)[Allocated(Self) + i] = default_colors[Allocated(Self) + i]

\* a default-coloured histogram of eight bins over a line: the palette is
\* used up by the bins and the line gets no colour
C18_PaletteUsedUp ==
    /\ Overlaid /\ Self.chart_type = "hist" /\ Other.chart_type = "line"
    /\ ~ExplicitColors(Self) /\ ~ExplicitColors(Other)
    /\ Len(DataOf(Self)) = 8
    /\ ColorsOf(Result) = default_colors

\* C19: the overlay of two charts with data returns a chart whose width and
\* height are the larger of the operands', in the chart and in its options,
\* whatever constructor made the operands.
C19_OverlayTakesLargerDims ==
    OverlayCall
        => /\ last.res # 0
           /\ \A w \in {Self.width, Other.width} : Result.width >= w
           /\ Result.width \in {Self.width, Other.width}
           /\ \A hh \in {Self.height, Other.height} : Result.height >= hh
           /\ Result.height \in {Self.height, Other.height}
           /\ OptionsOf(Result).width = Result.width
           /\ OptionsOf(Result).height = Result.height

\* a graph with width and height unset as an operand of an overlay, which
\* raised TypeError
C19_UnsetDimsRaise ==
    /\ OverlayCall /\ Self.chart_type = "line" /\ Other.chart_type = "graph"
    /\ Other.width = None /\ Other.height = None
    /\ last.err = "TypeError" /\ last.res = 0

\* C20: a * b, a + b and a / b leave the data, kind, options, width and
\* height of a and of b as they were, whether they return or raise.
C20_OperatorsLeaveOperands ==
    [][last'.op \in {"mul", "add", "truediv"}
          => \A c \in {last'.a, last'.b} :
                /\ charts'[c].data = charts[c].data
                /\ charts'[c].chart_type = charts[c].chart_type
                /\ charts'[c].options = charts[c].options
                /\ charts'[c].width = charts[c].width
                /\ charts'[c].height = charts[c].height
                /\ Snapshot(heap', charts'[c]) = Snapshot(heap, charts[c])]_vars

\* an overlay whose first operand has colours of its own: the result has
\* more colours, the operand the ones it had
C20_ColoredOperandKept ==
    /\ Overlaid /\ ExplicitColors(Self)
    /\ Len(ColorsOf(Result)) > Len(ColorsOf(Self))
    /\ Snapshot(heap, Self).options = snap[last.a].options

Specified(c) == c.data # None /\ c.svg = None
Rendered(c) == c.data # None /\ c.svg # None
OpaqueWithDims(c) == IsOpaque(c) /\ c.width # None /\ c.height # None

\* C25: every chart is Specified (data, no SVG), Rendered (data and SVG) or
\* Opaque (SVG and dimensions, no data); a step keeps a chart's data, keeps
\* an SVG once it is there, and removes no chart; + and / create Opaque
\* charts, an overlay of two charts with data a Specified one.
C25_Lifecycle ==
    /\ [](\A c \in 1..Len(charts) :
            Specified(charts[c]) \/ Rendered(charts[c]) \/ OpaqueWithDims(charts[c]))
    /\ [][/\ Len(charts') >= Len(charts)
          /\ \A c \in 1..Len(charts) :
                /\ charts'[c].data = charts[c].data
                /\ charts[c].svg # None => charts'[c].svg = charts[c].svg
          /\ (Len(charts') > Len(charts) /\ last'.op \in {"add", "truediv"})
                => OpaqueWithDims(charts'[Len(charts')])
          /\ (Len(charts') > Len(charts) /\ last'.op = "mul"
                /\ charts[last'.a].data # None /\ charts[last'.b].data # None)
                => Specified(charts'[Len(charts')])]_vars

\* a chart made by a constructor, an overlay that was created Specified and
\* is Rendered since it was composed, and the Opaque chart made from it
C25_AllThreeStates ==
    /\ Len(charts) = 3
    /\ Rendered(charts[1]) /\ snap[1].ctor
    /\ Rendered(charts[2]) /\ ~snap[2].ctor /\ renders[2] = 1
    /\ OpaqueWithDims(charts[3]) /\ snap[3].a = 2

\* the layout call of the last operation was made
LayoutCalled ==
    /\ last.layout \in {"stack", "sideBySide", "vertical"}
    /\ IF last.res # 0 THEN TRUE ELSE last.args.failed = "layout"

\* C26 as stated: no a * b calls the gateway, for a render or for a layout.
C26_OverlayNeverCallsGateway ==
    last.op = "mul" => (last.gw = 0 /\ ~LayoutCalled)

\* the operands of the step's operation that held no SVG before it
Unrendered(a, b) == {c \in {a, b} : charts[c].svg = None}

\* C26 as the code has it: a * b on two charts with data calls the gateway
\* for nothing; a * b with an operand without data, a + b and a / b render
\* each operand that holds no SVG once, self first, and then make the
\* layout call.
C26_DataOverlayCallsNothing ==
    [][/\ (last'.op = "mul" /\ last' # last
            /\ charts[last'.a].data # None /\ charts[last'.b].data # None)
             => (last'.gw = 0 /\ last'.layout = "" /\ nsvg' = nsvg)
       /\ (last'.op \in {"mul", "add", "truediv"} /\ last'.layout # "")
             => /\ last'.gw <= Cardinality(Unrendered(last'.a, last'.b))
                /\ last'.res # 0
                     => /\ last'.gw = Cardinality(Unrendered(last'.a, last'.b))
                        /\ nsvg' = nsvg + last'.gw + 1]_vars

\* an overlay with a render-only operand that made the layout call
C26_OverlayThroughLayout ==
    /\ last.op = "mul" /\ last.layout = "stack" /\ LayoutCalled
    /\ Self.data # None /\ Other.data = None
    /\ last.err = "TimeoutExpired"

\* C27: an overlay of a chart with data and a render-only chart is handed
\* to the layout call with operation stack; what it returns is Opaque and
\* has none of the operand's data.
C27_MixedOverlayStacks ==
    (last.op = "mul" /\ (Self.data = None) # (Other.data = None)
        /\ RenderOnly(IF Self.data = None THEN Self ELSE Other))
        => /\ last.layout = "stack"
           /\ last.res # 0 => (IsOpaque(Result) /\ Result.data = None
                                /\ Result.options # Self.options
                                /\ Result.options # Other.options)

\* a render-only chart overlaid with a bar chart, in that order
C27_OpaqueTimesBar ==
    /\ last.op = "mul" /\ last.res # 0
    /\ RenderOnly(Self) /\ Other.chart_type = "bar" /\ Other.data # None
    /\ IsOpaque(Result) /\ last.layout = "stack"

\* the overlay converted its first operand, a line or scatter chart, to
\* unified series: the second operand is of another kind
ConvertedFirst ==
    /\ Overlaid /\ Self.chart_type \in {"line", "scatter"}
    /\ Other.chart_type # Self.chart_type /\ Result.chart_type = "composite"

\* C28: the unified series of a line or scatter chart are its series in
\* order, each tagged with the chart's kind, with the same points in order,
\* every point keeping x, y and, when it has them, size and label.
C28_UnifiedKeepsPoints ==
    ConvertedFirst
        => /\ Len(DataOf(Result)) >= Len(DataOf(Self))
           /\ \A j \in 1..Len(DataOf(Self)) :
                 /\ DataOf(Result)[j].name = DataOf(Self)[j].name
                 /\ DataOf(Result)[j].renderType = Self.chart_type
                 /\ DataOf(Result)[j].data = DataOf(Self)[j].data

\* a scatter chart whose points have labels, converted: the points of the
\* unified series have x, y and size, and no label
C28_LabelDropped ==
    /\ ConvertedFirst /\ Self.chart_type = "scatter"
    /\ DOMAIN DataOf(Self)[1].data[1] = {"x", "y", "size", "label"}
    /\ DOMAIN DataOf(Result)[1].data[1] = {"x", "y", "size"}
    /\ Len(DataOf(Result)[1].data) = Len(DataOf(Self)[1].data)

Constructors == {"bar", "line", "scatter", "hist", "heatmap", "graph"}

\* the call had no categories, points, values, cells or nodes
EmptyInput(op, in) ==
    CASE op = "bar" -> Len(in.categories) = 0 /\ Len(in.values) = 0
      [] op \in {"line", "scatter"} -> Len(in.x) = 0
      [] op = "hist" -> Len(in.values) = 0
      [] op = "heatmap" -> Len(in.matrix) = 0
      [] op = "graph" -> Len(in.nodes) = 0

\* the chart has bars, bins, cells or nodes, or series that all have points
NonEmptyData(c) ==
    /\ PyLen(heap[c.data]) > 0
    /\ c.chart_type \in {"line", "scatter"}
          => \A j \in 1..Len(DataOf(c)) : Len(DataOf(c)[j].data) > 0

\* C29: a constructor called without categories, points, values, cells or
\* nodes raises before any render call, and the chart a constructor
\* returns has data that is not empty.
C29_EmptyInputRejected ==
    last.op \in Constructors
        => /\ EmptyInput(last.op, last.args) => RaisedEarly
           /\ last.res # 0 => NonEmptyData(Result)

\* bar([], []) returned a bar chart whose data is the empty list
C29_BarChartWithoutBars ==
    /\ Called("bar") /\ EmptyInput("bar", last.args)
    /\ last.res # 0 /\ Result.chart_type = "bar" /\ Result.svg # None
    /\ DataOf(Result) = << >>

(***************************************************************************)
(* The gateway as threads see it.  Each thread makes one call: a render    *)
(* (a constructor or Chart._generate_svg), a composition                   *)
(* (Chart._compose_charts), Chart.save_png, or convert_svg_to_png on the   *)
(* default handle.  A step is one statement that reads or writes what the  *)
(* threads share: the module global _default_bridge and the file system.   *)
(* File-system calls themselves succeed.                                   *)
(***************************************************************************)
PayloadFile(t) == << "payload.json", t >>
ComposeScript == << "temp_compose.ts", 0 >>
OutputDir(t) == << "directory", t >>
OutputFile(t) == << "figure.png", t >>

\* thread t goes on as rec, or ends its call returning or raising
Goto(t, rec, pc) == thread' = [thread EXCEPT ![t] = [rec EXCEPT !.pc = pc]]
Raise(t, err, msg) ==
    thread' = [thread EXCEPT ![t] = [@ EXCEPT !.pc = "done", !.ret = "", !.owner = 0,
                                              !.err = err, !.msg = msg]]

\* the call thread t makes; scale 1 is the default 1.0 and dpi None the
\* default of a PNG export
Begin(t) ==
    /\ thread[t].pc = "idle"
    /\ \E task \in {"render", "compose", "save_png", "convert"}, scale \in {1, 2},
          dpi \in {None, 300} :
         /\ task \in {"render", "compose"} => (scale = 1 /\ dpi = None)
         /\ Goto(t, [thread[t] EXCEPT !.task = task, !.scale = scale, !.dpi = dpi],
                 IF task = "save_png" THEN "validate" ELSE "bridge")
    /\ UNCHANGED << default_bridge, nbridge, files, script, chartVars, histVars >>

\* a variant of SavePngValidate that creates the directory without a check
SavePngValidate_unchecked(t) ==
    /\ thread[t].pc = "validate"
    /\ files' = files \cup {OutputDir(t)}
    /\ Goto(t, thread[t], "bridge")
    /\ UNCHANGED << default_bridge, nbridge, script, chartVars, histVars >>

\* Chart.save_png, lines 1868-1876
SavePngValidate(t) ==
    /\ thread[t].pc = "validate"
    /\ IF thread[t].dpi # None /\ thread[t].scale # 1
       THEN Raise(t, "ValueError", "Cannot specify both dpi and scale parameters")
              /\ files' = files
       ELSE Goto(t, thread[t], "bridge") /\ files' = files \cup {OutputDir(t)}
    /\ UNCHANGED << default_bridge, nbridge, script, chartVars, histVars >>

\* _get_default_bridge, line 452: the test of the global
GetBridge(t) ==
    /\ thread[t].pc = "bridge"
    /\ Goto(t, thread[t], IF default_bridge = None THEN "construct" ELSE "return")
    /\ UNCHANGED << default_bridge, nbridge, files, script, chartVars, histVars >>

\* D3DenoBridge.__init__, lines 92-109, with its probe of the deno executable
ConstructBridge(t) ==
    /\ thread[t].pc = "construct"
    /\ nbridge' = nbridge + 1
    /\ \E probe \in {"ok", "fail"} :
         IF probe = "ok" THEN Goto(t, [thread[t] EXCEPT !.mine = nbridge + 1], "assign")
         ELSE Raise(t, "RuntimeError", "Deno not available")
    /\ UNCHANGED << default_bridge, files, script, chartVars, histVars >>

\* line 453: the assignment to the global
AssignBridge(t) ==
    /\ thread[t].pc = "assign"
    /\ default_bridge' = thread[t].mine
    /\ Goto(t, thread[t], "return")
    /\ UNCHANGED << nbridge, files, script, chartVars, histVars >>

\* line 454: return _default_bridge
ReturnBridge(t) ==
    /\ thread[t].pc = "return"
    /\ Goto(t, [thread[t] EXCEPT !.handle = default_bridge],
            CASE thread[t].task = "render" -> "payload"
              [] thread[t].task = "compose" -> "write"
              [] OTHER -> "convert")
    /\ UNCHANGED << default_bridge, nbridge, files, script, chartVars, histVars >>

\* _call_deno_script, lines 186-189: the payload file
WritePayload(t) ==
    /\ thread[t].pc = "payload"
    /\ files' = files \cup {PayloadFile(t)}
    /\ Goto(t, thread[t], "run")
    /\ UNCHANGED << default_bridge, nbridge, script, chartVars, histVars >>

\* lines 192-198: the process prints an SVG, exits non-zero, prints nothing,
\* runs for more than 30 seconds, or cannot be started
RunScript(t) ==
    /\ thread[t].pc = "run"
    /\ \E out \in {"svg", "nonzero", "empty", "timeout", "oserror"} : Goto(t, [thread[t] EXCEPT !.out = out], "unlink")
    /\ UNCHANGED << default_bridge, nbridge, files, script, chartVars, histVars >>

\* lines 200-214: what the call returns or raises.  The RuntimeError raised
\* for a non-zero exit or empty output is caught by except Exception and
\* raised again as RuntimeError("Failed to execute Deno script: ...")
deno_result(out) ==
    IF out = "svg" THEN [ret |-> "svg", err |-> "", msg |-> ""]
    ELSE IF out = "timeout"
    THEN [ret |-> "", err |-> "RuntimeError", msg |-> "Deno script timed out after 30 seconds"]
    ELSE [ret |-> "", err |-> "RuntimeError", msg |-> "Failed to execute Deno script"]

\* a variant of UnlinkPayload that leaves the file behind after a timeout
UnlinkPayload_unless_timeout(t) ==
    /\ thread[t].pc = "unlink"
    /\ files' = IF thread[t].out = "timeout" THEN files ELSE files \ {PayloadFile(t)}
    /\ Goto(t, deno_result(thread[t].out) @@ thread[t], "done")
    /\ UNCHANGED << default_bridge, nbridge, script, chartVars, histVars >>

\* lines 215-221: finally, then the return or the raise
UnlinkPayload(t) ==
    /\ thread[t].pc = "unlink"
    /\ files' = files \ {PayloadFile(t)}
    /\ Goto(t, deno_result(thread[t].out) @@ thread[t], "done")
    /\ UNCHANGED << default_bridge, nbridge, script, chartVars, histVars >>

\* Chart._compose_charts, lines 1773-1775: the script is written to the one
\* path viz_path/temp_compose.ts
WriteScript(t) ==
    /\ thread[t].pc = "write"
    /\ files' = files \cup {ComposeScript}
    /\ script' = t
    /\ Goto(t, thread[t], "exec")
    /\ UNCHANGED << default_bridge, nbridge, chartVars, histVars >>

\* lines 1778-1796: deno runs the script that is at the path now, and fails
\* when there is none; it answers, exits non-zero, runs for more than 30
\* seconds, or prints what json.loads cannot parse
ExecScript(t) ==
    /\ thread[t].pc = "exec"
    /\ \E out \in (IF ComposeScript \in files
                    THEN {"ok", "nonzero", "timeout", "unparsable"} ELSE {"nonzero"}) :
         Goto(t, [thread[t] EXCEPT !.out = out,
                                   !.ret = IF out = "ok" THEN "composition" ELSE "",
                                   !.owner = IF out = "ok" THEN script ELSE 0,
                                   !.err = CASE out = "nonzero" -> "RuntimeError"
                                             [] out = "timeout" -> "TimeoutExpired"
                                             [] out = "unparsable" -> "JSONDecodeError"
                                             [] OTHER -> ""], "exists")
    /\ UNCHANGED << default_bridge, nbridge, files, script, chartVars, histVars >>

\* line 1800: if os.path.exists(temp_script_path)
CheckScript(t) ==
    /\ thread[t].pc = "exists"
    /\ Goto(t, thread[t], IF ComposeScript \in files THEN "remove" ELSE "done")
    /\ UNCHANGED << default_bridge, nbridge, files, script, chartVars, histVars >>

\* line 1801: os.remove(temp_script_path), which raises when the file is gone
RemoveScript(t) ==
    /\ thread[t].pc = "remove"
    /\ IF ComposeScript \in files
       THEN Goto(t, thread[t], "done") /\ files' = files \ {ComposeScript} /\ script' = 0
       ELSE Raise(t, "FileNotFoundError", "temp_compose.ts") /\ UNCHANGED << files, script >>
    /\ UNCHANGED << default_bridge, nbridge, chartVars, histVars >>

\* convert_svg_to_png, lines 394-399: the options of the request
png_options(scale, dpi) ==
    IF dpi # None THEN {<< "dpi", dpi >>} ELSE {<< "scale", scale >>}

\* convert_svg_to_png, lines 390-440: PNG bytes, or a failure of the converter
ConvertPng(t) ==
    /\ thread[t].pc = "convert"
    /\ IF thread[t].dpi # None /\ thread[t].scale # 1
       THEN Raise(t, "ValueError", "Cannot specify both dpi and scale parameters")
       ELSE \E out \in {"png", "fail", "timeout"} :
              IF out = "png"
              THEN Goto(t, [thread[t] EXCEPT !.out = out, !.ret = "png",
                               !.req = png_options(thread[t].scale, thread[t].dpi)],
                        IF thread[t].task = "save_png" THEN "writepng" ELSE "done")
              ELSE Goto(t, [thread[t] EXCEPT !.out = out, !.err = "RuntimeError",
                               !.msg = "Failed to convert SVG to PNG",
                               !.req = png_options(thread[t].scale, thread[t].dpi)], "done")
    /\ UNCHANGED << default_bridge, nbridge, files, script, chartVars, histVars >>

\* Chart.save_png, lines 1884-1885
WritePng(t) ==
    /\ thread[t].pc = "writepng"
    /\ files' = files \cup {OutputFile(t)}
    /\ Goto(t, thread[t], "done")
    /\ UNCHANGED << default_bridge, nbridge, script, chartVars, histVars >>

GateInit ==
    /\ heap = << >>
    /\ charts = << >>
    /\ nsvg = 0
    /\ renders = << >>
    /\ snap = << >>
    /\ nmut = 0
    /\ last = NoOp
    /\ hvalues = << >>
    /\ hbins = IntBins(1)
    /\ hres = NoResult
    /\ default_bridge = None
    /\ nbridge = 0
    /\ files = {}
    /\ script = 0
    /\ thread = [t \in Threads |-> Idle]

NextGate ==
    \/ \E t \in Threads : Begin(t)
    \/ \E t \in Threads : SavePngValidate(t)
    \/ \E t \in Threads : GetBridge(t)
    \/ \E t \in Threads : ConstructBridge(t)
    \/ \E t \in Threads : AssignBridge(t)
    \/ \E t \in Threads : ReturnBridge(t)
    \/ \E t \in Threads : WritePayload(t)
    \/ \E t \in Threads : RunScript(t)
    \/ \E t \in Threads : UnlinkPayload(t)
    \/ \E t \in Threads : WriteScript(t)
    \/ \E t \in Threads : ExecScript(t)
    \/ \E t \in Threads : CheckScript(t)
    \/ \E t \in Threads : RemoveScript(t)
    \/ \E t \in Threads : ConvertPng(t)
    \/ \E t \in Threads : WritePng(t)

SpecGate == GateInit /\ [][NextGate]_vars

Finished(t) == thread[t].pc = "done"

\* C21: D3DenoBridge is constructed at most once, and every caller of
\* _get_default_bridge is given the same handle.
C21_BridgeBuiltOnce ==
    /\ nbridge <= 1
    /\ \A t \in Threads, u \in Threads :
          (thread[t].handle # None /\ thread[u].handle # None)
              => thread[t].handle = thread[u].handle

\* two threads that both found the global unset: each built a gateway and
\* each was given its own
C21_TwoHandles ==
    /\ nbridge = 2
    /\ thread[1].handle # None /\ thread[2].handle # None
    /\ thread[1].handle # thread[2].handle
    /\ thread[1].handle = thread[1].mine /\ thread[2].handle = thread[2].mine

\* C22: of two compositions made at the same time, each runs the script
\* written from its own operands and returns their composition.
C22_ComposeOwnOperands ==
    \A t \in Threads :
        thread[t].task = "compose"
            => /\ thread[t].pc = "exec" => (ComposeScript \in files /\ script = t)
               /\ thread[t].ret = "composition" => thread[t].owner = t

\* both threads composed and returned, thread 1 the composition of thread
\* 2's operands
C22_ComposedTheOthers ==
    /\ thread[1].task = "compose" /\ thread[2].task = "compose"
    /\ Finished(1) /\ Finished(2)
    /\ thread[1].ret = "composition" /\ thread[1].owner = 2

\* thread t made a render call that ran the process
RenderCalled(t) == thread[t].task = "render" /\ Finished(t) /\ thread[t].out # ""

\* C23 as stated: a render call returns a non-empty SVG, or raises a timeout
\* error, or raises a render-failure error of another class; it never
\* returns an empty string.
C23_TimeoutIsItsOwnError ==
    /\ \A t \in Threads :
          RenderCalled(t)
              => /\ thread[t].ret # "empty"
                 /\ (thread[t].out = "svg") = (thread[t].ret = "svg")
                 /\ (thread[t].out # "svg") = (thread[t].err # "")
    /\ \A t \in Threads, u \in Threads :
          (RenderCalled(t) /\ RenderCalled(u)
              /\ thread[t].out = "timeout" /\ thread[u].out \in {"nonzero", "empty"})
              => thread[t].err # thread[u].err

\* C23 as the code has it: a render call returns a non-empty SVG or raises
\* RuntimeError, for a timeout and for every other failure alike; only the
\* message tells a timeout from another failure.  It never returns an
\* empty string.
C23_RenderOutcomes ==
    /\ \A t \in Threads :
          RenderCalled(t)
              => /\ thread[t].ret # "empty"
                 /\ (thread[t].out = "svg") = (thread[t].ret = "svg")
                 /\ (thread[t].out # "svg") = (thread[t].err = "RuntimeError")
                 /\ (thread[t].out = "svg") = (thread[t].err = "")
    /\ \A t \in Threads, u \in Threads :
          (RenderCalled(t) /\ RenderCalled(u)
              /\ thread[t].out = "timeout" /\ thread[u].out \notin {"svg", "timeout"})
              => (thread[t].err = thread[u].err /\ thread[t].msg # thread[u].msg)

\* a render that timed out and a render that printed nothing
C23_TimeoutAndEmptyOutput ==
    /\ RenderCalled(1) /\ RenderCalled(2)
    /\ thread[1].out = "timeout" /\ thread[2].out = "empty"
    /\ thread[1].err = "RuntimeError" /\ thread[2].err = "RuntimeError"

\* the call of thread t gave a dpi and a scale other than the default
BothGiven(t) ==
    /\ thread[t].task \in {"save_png", "convert"}
    /\ thread[t].dpi # None /\ thread[t].scale # 1

====
